---- MODULE Spec2Model ----
(***************************************************************************)
(* Order payment and status lifecycle of shop4me: order creation, M-Pesa   *)
(* STK push initiation, the asynchronous callback processor, the admin     *)
(* status update and the daily reconciliation sweep, at the granularity of *)
(* the database reads and writes and the provider call of each handler.    *)
(*                                                                         *)
(* Money is held in cents (DECIMAL(10,2) columns), time in milliseconds.   *)
(***************************************************************************)
EXTENDS Integers, Sequences, FiniteSets, TLC

VARIABLES now, ticks, orders, logs, pushes, cb, ip, adm, sw, faults, served, reply

vars == <<now, ticks, orders, logs, pushes, cb, ip, adm, sw, faults, served, reply>>

\* the null of a text column, of a numeric or timestamp column, of a reason
NULL == "null"
NONE == -1
NoReason == [prefix |-> "", desc |-> ""]

(* ------------------------------ bounds -------------------------------- *)

\* the clock advances at most this many times
MaxTicks == 2
\* database writes that may be made to throw in one behaviour
MaxFaults == 1
\* requests (payment, callback, admin update, sweep) served in one behaviour
MaxRequests == 2
\* the amounts converted range over this many cents
MaxCents == 100

(* ----------------------- constants of the code ------------------------ *)

\* 5 * 60 * 1000: retry cooldown and payment deadline, in ms
FiveMinutes == 300000
\* 30 * 60 * 1000: expiry threshold of the sweep, in ms
ThirtyMinutes == 1800000
\* discrepancy tolerance of the sweep, in currency units
Tolerance == 10

Orders == {"o1", "o2"}
CallbackHandlers == {"cb1", "cb2"}
PaymentRequests == {"ip1", "ip2"}

OrderStatuses ==
  {"DRAFT", "PENDING_PAYMENT", "PROCESSING", "SHOPPING", "OUT_FOR_DELIVERY",
   "DELIVERED", "CANCELLED"}
PaymentStatuses == {"PENDING", "PAID", "FAILED", "REFUNDED", "PARTIAL"}

(* --------------------------- the order store -------------------------- *)

\* the row createOrderDraft inserts: column defaults of the orders table
NewOrder(total) ==
  [created |-> TRUE,
   totalEstimate |-> total,
   amountCollected |-> NONE,
   paymentStatus |-> "PENDING",
   orderStatus |-> "PENDING_PAYMENT",
   reconciliationStatus |-> "NOT_REQUIRED",
   mpesaReceipt |-> NULL,
   merchantRequestId |-> NULL,
   checkoutRequestId |-> NULL,
   cancellationReason |-> NoReason,
   paymentDueAt |-> NONE,
   updatedAt |-> now]

NoOrder ==
  [created |-> FALSE,
   totalEstimate |-> NONE,
   amountCollected |-> NONE,
   paymentStatus |-> "PENDING",
   orderStatus |-> "PENDING_PAYMENT",
   reconciliationStatus |-> "NOT_REQUIRED",
   mpesaReceipt |-> NULL,
   merchantRequestId |-> NULL,
   checkoutRequestId |-> NULL,
   cancellationReason |-> NoReason,
   paymentDueAt |-> NONE,
   updatedAt |-> 0]

\* prisma findUnique({ where: { checkoutRequestId } }): the id of the row, or NULL
FindByCheckoutRequestId(cid) ==
  IF \E o \in Orders : orders[o].created /\ orders[o].checkoutRequestId = cid
  THEN CHOOSE o \in Orders : orders[o].created /\ orders[o].checkoutRequestId = cid
  ELSE NULL

\* the unique indexes of the orders table: a written non-null value that
\* another row already holds makes the update throw
UniqueViolation(o, data) ==
  \E f \in {"mpesaReceipt", "merchantRequestId", "checkoutRequestId"} :
    /\ f \in DOMAIN data
    /\ data[f] # NULL
    /\ \E q \in Orders \ {o} : orders[q].created /\ orders[q][f] = data[f]

\* prisma.order.update throws when the row is missing or an index is violated
UpdateThrows(o, data) ==
  \/ o \notin Orders
  \/ ~orders[o].created
  \/ UniqueViolation(o, data)

\* the row after prisma.order.update({ where: { id }, data }): the fields of
\* data are written, updatedAt is set to the current time, the rest is kept
RowAfter(row, data, at) ==
  [f \in DOMAIN row |->
     IF f = "updatedAt" THEN at
     ELSE IF f \in DOMAIN data THEN data[f]
     ELSE row[f]]

UpdatedRow(o, data) == RowAfter(orders[o], data, now)

\* one row of status_logs
LogEntry(status, actor, channel, text, arg) ==
  [status |-> status, actor |-> actor, channel |-> channel,
   note |-> [text |-> text, arg |-> arg]]

\* requests are taken while the budget lasts
CanStart == served < MaxRequests

\* a request is taken by the first free handler of its kind
FirstIdle(slots, p, first) == p = first \/ slots[first].pc # "idle"

\* a database write is made to throw (connection loss, timeout): at most
\* MaxFaults times in one behaviour
CanFault == faults < MaxFaults

\* what a handler answers: ok, the HTTP status (0 for a server action, which
\* has none) and the message
Res(ok, http, msg) == [ok |-> ok, http |-> http, msg |-> msg]
NoRes == Res(FALSE, -1, "")

\* the counters the sweep returns
Results(processed, expired, discrepancies, errors) ==
  [processedOrders |-> processed, expiredPayments |-> expired,
   discrepancies |-> discrepancies, errors |-> errors]
NoResults == Results(0, 0, 0, 0)

\* the answer a handler gave in the step just taken, if it gave one
NoReply == [by |-> "none", order |-> NULL, res |-> NoRes, results |-> NoResults]
Answer(by, o, res) == reply' = [by |-> by, order |-> o, res |-> res, results |-> NoResults]

(* ------------------------------ the clock ----------------------------- *)

\* the time that passes between two steps: the cooldown, or the cooldown and
\* the expiry threshold together
TimeSteps == {FiveMinutes, FiveMinutes + ThirtyMinutes}

\* the clock is read in steps of minutes and a request is served in far less:
\* time passes between requests
Quiescent ==
  /\ \A p \in DOMAIN cb : cb[p].pc = "idle"
  /\ \A p \in DOMAIN ip : ip[p].pc = "idle"
  /\ adm.pc = "idle"
  /\ sw.pc = "idle"

Tick(d) ==
  /\ ticks < MaxTicks
  /\ Quiescent
  /\ ticks' = ticks + 1
  /\ now' = now + d
  /\ reply' = NoReply
  /\ UNCHANGED <<orders, logs, pushes, cb, ip, adm, sw, faults, served>>

(* --------------------------- order creation --------------------------- *)

Subtotals == {100000}
ServiceFees == {20000}

\* createOrderDraft: totalEstimate = subtotal + serviceFee, the other
\* columns take their defaults; no status log row is written
createOrderDraft(o, subtotal, serviceFee) ==
  /\ ~orders[o].created
  /\ o = "o2" => orders["o1"].created
  /\ orders' = [orders EXCEPT ![o] = NewOrder(subtotal + serviceFee)]
  /\ reply' = NoReply
  /\ UNCHANGED <<now, ticks, logs, pushes, cb, ip, adm, sw, faults, served>>

(* ------------------------ the callback processor ---------------------- *)

Receipts == {"R1"}
\* values of the Amount metadata item
CallbackAmounts == {120000}
\* the ResultCode of a request that failed (any value but 0), and the
\* ResultDesc sent with each code
FailureCodes == {1}
ResultDescOf(code) ==
  IF code = 0 THEN "The service request is processed successfully."
  ELSE "Request cancelled by user"

\* the CheckoutRequestID (and MerchantRequestID) the provider gives its i-th
\* accepted push request, and one no push request was ever given
CheckoutRequestID(i) == <<"ws_CO_1", "ws_CO_2", "ws_CO_3", "ws_CO_4", "ws_CO_5">>[i]
MerchantRequestID(i) == <<"mr_1", "mr_2", "mr_3", "mr_4", "mr_5">>[i]
UnknownCid == "ws_CO_0"

IssuedCids == {pushes[i].cid : i \in 1..Len(pushes)}
PushOf(c) == CHOOSE i \in 1..Len(pushes) : pushes[i].cid = c

\* the bodies that can be POSTed to the callback route
Payload(struct, mid, cid, code, amount, receipt) ==
  [struct |-> struct, mid |-> mid, cid |-> cid, code |-> code,
   amount |-> amount, receipt |-> receipt]

Payloads ==
  {Payload("badjson", NULL, NULL, 0, NONE, NULL),
   Payload("nostk", NULL, NULL, 0, NONE, NULL),
   Payload("ok", NULL, NULL, 0, NONE, NULL),
   Payload("ok", "mid", NULL, 0, NONE, NULL)}
  \cup {Payload("ok", "mid", c, code, NONE, NULL) :
          c \in IssuedCids \cup {UnknownCid}, code \in FailureCodes}
  \cup {Payload("ok", "mid", c, 0, a, r) :
          c \in IssuedCids \cup {UnknownCid},
          a \in CallbackAmounts \cup {NONE}, r \in Receipts \cup {NULL}}

\* the success callback that reports the Amount of the push request itself
EchoPayloads ==
  {Payload("ok", "mid", pushes[i].cid, 0, pushes[i].Amount, r) :
     i \in 1..Len(pushes), r \in Receipts}

\* what the provider itself sends for a push request it accepted: a failure,
\* or a success carrying the Amount and the MpesaReceiptNumber
ProviderPayloads(c) ==
  {pl \in Payloads \cup EchoPayloads :
     /\ pl.struct = "ok" /\ pl.mid # NULL /\ pl.cid = c
     /\ pl.code = 0 => (pl.amount # NONE /\ pl.receipt # NULL)}

\* a number of currency units num/den held in a DECIMAL(10,2) column, in cents
DecimalCents(num, den) == (num * 100 + den \div 2) \div den

\* the update data with the Amount stored as it came, not divided by 100
CallbackUpdateDataUndivided(pl) ==
  IF pl.code = 0
  THEN [paymentDueAt |-> NONE, paymentStatus |-> "PAID", orderStatus |-> "PROCESSING"]
       @@ (IF pl.receipt # NULL THEN [mpesaReceipt |-> pl.receipt] ELSE <<>>)
       @@ (IF pl.amount # NONE /\ pl.amount # 0
           THEN [amountCollected |-> DecimalCents(pl.amount, 1)] ELSE <<>>)
  ELSE [paymentDueAt |-> NONE, paymentStatus |-> "FAILED", orderStatus |-> "CANCELLED",
        cancellationReason |-> [prefix |-> "Payment failed: ", desc |-> ResultDescOf(pl.code)]]

\* the update data with the failure branch leaving paymentDueAt alone
CallbackUpdateDataKeepingDueAt(pl) ==
  IF pl.code = 0
  THEN [paymentDueAt |-> NONE, paymentStatus |-> "PAID", orderStatus |-> "PROCESSING"]
       @@ (IF pl.receipt # NULL THEN [mpesaReceipt |-> pl.receipt] ELSE <<>>)
       @@ (IF pl.amount # NONE /\ pl.amount # 0
           THEN [amountCollected |-> DecimalCents(pl.amount, 100)] ELSE <<>>)
  ELSE [paymentStatus |-> "FAILED", orderStatus |-> "CANCELLED",
        cancellationReason |-> [prefix |-> "Payment failed: ", desc |-> ResultDescOf(pl.code)]]

\* the data processCallback passes to prisma.order.update; a field whose
\* value is undefined is not written
CallbackUpdateData(pl) ==
  IF pl.code = 0
  THEN [paymentDueAt |-> NONE, paymentStatus |-> "PAID", orderStatus |-> "PROCESSING"]
       @@ (IF pl.receipt # NULL THEN [mpesaReceipt |-> pl.receipt] ELSE <<>>)
       @@ (IF pl.amount # NONE /\ pl.amount # 0
           THEN [amountCollected |-> DecimalCents(pl.amount, 100)] ELSE <<>>)
  ELSE [paymentDueAt |-> NONE, paymentStatus |-> "FAILED", orderStatus |-> "CANCELLED",
        cancellationReason |-> [prefix |-> "Payment failed: ", desc |-> ResultDescOf(pl.code)]]

\* the status log row processCallback creates
CallbackLogEntry(pl) ==
  IF pl.code = 0
  THEN LogEntry("PROCESSING", "SYSTEM", "WEB",
                "Payment successful. M-Pesa Receipt: ", pl.receipt)
  ELSE LogEntry("CANCELLED", "SYSTEM", "WEB", "Payment failed: ", ResultDescOf(pl.code))

\* the guard with the test of the receipt inverted
AlreadyProcessedWithoutReceipt(row) == row.paymentStatus = "PAID" /\ row.mpesaReceipt = NULL

\* the idempotency guard of processCallback
AlreadyProcessed(row) == row.paymentStatus = "PAID" /\ row.mpesaReceipt # NULL

NoPayload == Payload("none", NULL, NULL, 0, NONE, NULL)

IdleCb == [pc |-> "idle", payload |-> NoPayload, order |-> NULL]

\* what the route answers before processCallback writes anything, "pass" when
\* processCallback goes on to write
CallbackCheck(pl) ==
  LET o == FindByCheckoutRequestId(pl.cid) IN
    IF pl.struct = "badjson" THEN Res(FALSE, 200, "Internal server error")
    ELSE IF pl.struct = "nostk" THEN Res(FALSE, 400, "Invalid callback structure")
    ELSE IF pl.mid = NULL \/ pl.cid = NULL THEN Res(FALSE, 400, "Missing required fields")
    ELSE IF o = NULL THEN Res(FALSE, 500, "Order not found")
    ELSE IF AlreadyProcessed(orders[o]) THEN Res(TRUE, 200, "Callback already processed")
    ELSE Res(TRUE, 0, "pass")

Passed(res) == res.msg = "pass"

\* the order the handler found, if it got as far as looking
CallbackOrder(pl) ==
  IF pl.struct # "ok" \/ pl.mid = NULL \/ pl.cid = NULL THEN NULL
  ELSE FindByCheckoutRequestId(pl.cid)

\* who POSTs to the callback route: the route is public
Origins == {"provider", "other"}

\* the provider delivers the result of a push request it accepted, and
\* delivers the same result when it retries; anyone else can POST any body
Delivered(origin, pl) ==
  IF origin = "provider"
  THEN /\ pl.cid \in IssuedCids
       /\ pl \in ProviderPayloads(pl.cid)
       /\ pushes[PushOf(pl.cid)].result \in {{}, {pl}}
       /\ pushes' = [pushes EXCEPT ![PushOf(pl.cid)].result = {pl}]
  ELSE UNCHANGED pushes

\* POST of the callback route and processCallback up to its guard: the order
\* is looked up by CheckoutRequestID and the handler answers at once
CallbackRejected(origin, pl) ==
  /\ CanStart
  /\ ~Passed(CallbackCheck(pl))
  /\ served' = served + 1
  /\ Delivered(origin, pl)
  /\ Answer("callback", CallbackOrder(pl), CallbackCheck(pl))
  /\ UNCHANGED <<now, ticks, orders, logs, cb, ip, adm, sw, faults>>

\* the same, when the handler goes on to write
CallbackReceive(p, origin, pl) ==
  /\ cb[p].pc = "idle"
  /\ FirstIdle(cb, p, "cb1")
  /\ CanStart
  /\ Passed(CallbackCheck(pl))
  /\ Delivered(origin, pl)
  /\ cb' = [cb EXCEPT ![p] = [pc |-> "log", payload |-> pl,
                              order |-> FindByCheckoutRequestId(pl.cid)]]
  /\ served' = served + 1
  /\ reply' = NoReply
  /\ UNCHANGED <<now, ticks, orders, logs, ip, adm, sw, faults>>

\* the create replacing the log of the order by its one row
CallbackLogReplacing(p) ==
  /\ cb[p].pc = "log"
  /\ logs' = [logs EXCEPT ![cb[p].order] = <<CallbackLogEntry(cb[p].payload)>>]
  /\ cb' = [cb EXCEPT ![p].pc = "update"]
  /\ reply' = NoReply
  /\ UNCHANGED <<now, ticks, orders, pushes, ip, adm, sw, faults, served>>

\* prisma.statusLog.create of processCallback
CallbackLog(p) ==
  /\ cb[p].pc = "log"
  /\ logs' = [logs EXCEPT ![cb[p].order] = Append(@, CallbackLogEntry(cb[p].payload))]
  /\ cb' = [cb EXCEPT ![p].pc = "update"]
  /\ reply' = NoReply
  /\ UNCHANGED <<now, ticks, orders, pushes, ip, adm, sw, faults, served>>

\* the create throws: the catch of processCallback returns a failure
CallbackLogFails(p) ==
  /\ cb[p].pc = "log"
  /\ CanFault
  /\ faults' = faults + 1
  /\ cb' = [cb EXCEPT ![p] = IdleCb]
  /\ Answer("callback", cb[p].order, Res(FALSE, 500, "Failed to process callback"))
  /\ UNCHANGED <<now, ticks, orders, logs, pushes, ip, adm, sw, served>>

\* prisma.order.update of processCallback
CallbackUpdate(p) ==
  /\ cb[p].pc = "update"
  /\ LET o == cb[p].order
         data == CallbackUpdateData(cb[p].payload) IN
       IF UpdateThrows(o, data)
       THEN /\ Answer("callback", o, Res(FALSE, 500, "Failed to process callback"))
            /\ UNCHANGED orders
       ELSE /\ orders' = [orders EXCEPT ![o] = UpdatedRow(o, data)]
            /\ Answer("callback", o, Res(TRUE, 200, "Callback processed successfully"))
  /\ cb' = [cb EXCEPT ![p] = IdleCb]
  /\ UNCHANGED <<now, ticks, logs, pushes, ip, adm, sw, faults, served>>

\* the update throws for a reason outside the store
CallbackUpdateFails(p) ==
  /\ cb[p].pc = "update"
  /\ CanFault
  /\ faults' = faults + 1
  /\ cb' = [cb EXCEPT ![p] = IdleCb]
  /\ Answer("callback", cb[p].order, Res(FALSE, 500, "Failed to process callback"))
  /\ UNCHANGED <<now, ticks, orders, logs, pushes, ip, adm, sw, served>>

\* the process serving the callback dies between the two writes
CallbackCrash(p) ==
  /\ cb[p].pc = "update"
  /\ CanFault
  /\ faults' = faults + 1
  /\ cb' = [cb EXCEPT ![p] = IdleCb]
  /\ reply' = NoReply
  /\ UNCHANGED <<now, ticks, orders, logs, pushes, ip, adm, sw, served>>

(* ------------------------- payment initiation ------------------------- *)

\* phone numbers as typed into the form, character by character
PhoneInputs ==
  {<<"0", "7", "1", "2", "3", "4", "5", "6", "7", "8">>,
   <<"1", "2", "3", "4", "5">>}
NoPhone == <<>>

DigitChars == {"0", "1", "2", "3", "4", "5", "6", "7", "8", "9"}

StartsWith(s, pre) == Len(s) >= Len(pre) /\ SubSeq(s, 1, Len(pre)) = pre
Tail1(s) == SubSeq(s, 2, Len(s))
IsDigitOrPlus(c) == c \in DigitChars \cup {"+"}

\* sanitizePhone: drop what is neither digit nor +, then a leading 0 becomes +254
sanitizePhone(input) ==
  LET cleaned == SelectSeq(input, IsDigitOrPlus) IN
    IF StartsWith(cleaned, <<"0">>) THEN <<"+", "2", "5", "4">> \o Tail1(cleaned)
    ELSE cleaned

\* formatPhoneNumber up to its validation: the cleaned number
CleanedPhone(phone) ==
  LET cleaned == SelectSeq(phone, IsDigitOrPlus) IN
    IF StartsWith(cleaned, <<"+", "2", "5", "4">>) THEN Tail1(cleaned)
    ELSE IF StartsWith(cleaned, <<"0">>) THEN <<"2", "5", "4">> \o Tail1(cleaned)
    ELSE IF StartsWith(cleaned, <<"2", "5", "4">>) THEN cleaned
    ELSE IF Len(cleaned) = 9 THEN <<"2", "5", "4">> \o cleaned
    ELSE cleaned

\* formatPhoneNumber throws
PhoneInvalid(phone) ==
  Len(CleanedPhone(phone)) # 12 \/ ~StartsWith(CleanedPhone(phone), <<"2", "5", "4">>)

\* formatPhoneNumber: the number sent to the provider, NoPhone when it throws
formatPhoneNumber(phone) ==
  IF PhoneInvalid(phone) THEN NoPhone ELSE CleanedPhone(phone)

\* Math.round of an amount held in cents: whole currency units, half up
MathRound(cents) == (cents + 50) \div 100

\* the amount field of the body POSTed to the checkout API route, in cents
RouteAmounts == {0, 50000}

\* the cooldown test without the test of the checkoutRequestId
InProgressWithoutRequestId(row) ==
  /\ row.checkoutRequestId = NULL
  /\ row.paymentStatus = "PENDING"
  /\ now - row.updatedAt < FiveMinutes

\* the STK push is taken to be in progress
InProgress(row) ==
  /\ row.checkoutRequestId # NULL
  /\ row.paymentStatus = "PENDING"
  /\ now - row.updatedAt < FiveMinutes

InProgressError ==
  "Payment is already in progress. Please wait a few minutes before trying again."

\* the checks without the test for a cancelled order
PaymentGuardWithoutCancelled(row) ==
  IF row.paymentStatus = "PAID" THEN "Order has already been paid"
  ELSE IF InProgress(row) THEN InProgressError
  ELSE "pass"

\* the checks both entry points make on the row they read
PaymentGuard(row) ==
  IF row.paymentStatus = "PAID" THEN "Order has already been paid"
  ELSE IF row.orderStatus = "CANCELLED" THEN "Order has been cancelled"
  ELSE IF InProgress(row) THEN InProgressError
  ELSE "pass"

OrderMissing(orderId) == orderId \notin Orders \/ ~orders[orderId].created

\* what initiatePayment (server action) answers before it calls
\* initiateStkPush, "pass" when it calls it
initiatePaymentCheck(orderId, phone) ==
  IF orderId = "" THEN Res(FALSE, 0, "Order ID is required")
  ELSE IF phone = NoPhone THEN Res(FALSE, 0, "Phone number is required")
  ELSE IF OrderMissing(orderId) THEN Res(FALSE, 0, "Order not found")
  ELSE IF orders[orderId].totalEstimate = NONE
  THEN Res(FALSE, 0, "Order total is not available")
  ELSE IF PaymentGuard(orders[orderId]) # "pass"
  THEN Res(FALSE, 0, PaymentGuard(orders[orderId]))
  ELSE Res(TRUE, 0, "pass")

\* the same for POST of the checkout API route
CheckoutCheck(orderId, phone, amount) ==
  IF orderId = "" \/ phone = NoPhone \/ amount = 0
  THEN Res(FALSE, 400, "Missing required fields: orderId, phone, amount")
  ELSE IF OrderMissing(orderId) THEN Res(FALSE, 404, "Order not found")
  ELSE IF PaymentGuard(orders[orderId]) # "pass"
  THEN Res(FALSE, IF PaymentGuard(orders[orderId]) = InProgressError THEN 429 ELSE 400,
           PaymentGuard(orders[orderId]))
  ELSE Res(TRUE, 0, "pass")

IdleIp ==
  [pc |-> "idle", entry |-> NULL, order |-> NULL, amount |-> NONE, phone |-> NoPhone,
   cid |-> NULL]

\* initiatePayment turns the request away
initiatePaymentRejected(orderId, phone) ==
  /\ CanStart
  /\ ~Passed(initiatePaymentCheck(orderId, phone))
  /\ served' = served + 1
  /\ Answer("initiatePayment", orderId, initiatePaymentCheck(orderId, phone))
  /\ UNCHANGED <<now, ticks, orders, logs, pushes, cb, ip, adm, sw, faults>>

\* initiatePayment reads the order and calls initiateStkPush with its total
initiatePayment(p, orderId, phone) ==
  /\ ip[p].pc = "idle"
  /\ FirstIdle(ip, p, "ip1")
  /\ CanStart
  /\ Passed(initiatePaymentCheck(orderId, phone))
  /\ ip' = [ip EXCEPT ![p] = [IdleIp EXCEPT !.pc = "push", !.entry = "initiatePayment",
                                !.order = orderId,
                                !.amount = orders[orderId].totalEstimate,
                                !.phone = sanitizePhone(phone)]]
  /\ served' = served + 1
  /\ reply' = NoReply
  /\ UNCHANGED <<now, ticks, orders, logs, pushes, cb, adm, sw, faults>>

\* the checkout API route turns the request away
CheckoutRejected(orderId, phone, amount) ==
  /\ CanStart
  /\ ~Passed(CheckoutCheck(orderId, phone, amount))
  /\ served' = served + 1
  /\ Answer("checkout", orderId, CheckoutCheck(orderId, phone, amount))
  /\ UNCHANGED <<now, ticks, orders, logs, pushes, cb, ip, adm, sw, faults>>

\* the checkout API route reads the order and calls initiateStkPush with the
\* amount of the request body
CheckoutPOST(p, orderId, phone, amount) ==
  /\ ip[p].pc = "idle"
  /\ FirstIdle(ip, p, "ip1")
  /\ CanStart
  /\ Passed(CheckoutCheck(orderId, phone, amount))
  /\ ip' = [ip EXCEPT ![p] = [IdleIp EXCEPT !.pc = "push", !.entry = "checkout",
                                !.order = orderId, !.amount = amount, !.phone = phone]]
  /\ served' = served + 1
  /\ reply' = NoReply
  /\ UNCHANGED <<now, ticks, orders, logs, pushes, cb, adm, sw, faults>>

\* what can become of the call to the provider
PushOutcomes ==
  {"config_missing", "token_failed", "transport_error", "non_2xx", "rejected", "accepted"}

\* a push request the provider accepted, as it received it
PushRequest(o, amount, phone, cid) ==
  [order |-> o, Amount |-> amount, PhoneNumber |-> phone, at |-> now, cid |-> cid,
   result |-> {}]

\* a failed initiateStkPush as the entry point hands it on
StkFailure(p, msg) ==
  Res(FALSE, IF ip[p].entry = "checkout" THEN 400 ELSE 0, msg)

\* a failed initiateStkPush that also marks the payment of the order FAILED
StkPushFailsMarkingOrder(p, msg) ==
  /\ ip' = [ip EXCEPT ![p] = IdleIp]
  /\ Answer(ip[p].entry, ip[p].order, StkFailure(p, msg))
  /\ orders' = [orders EXCEPT ![ip[p].order].paymentStatus = "FAILED"]
  /\ UNCHANGED pushes

\* initiateStkPush returns a failure before the provider accepted anything:
\* nothing is written
StkPushFails(p, msg) ==
  /\ ip' = [ip EXCEPT ![p] = IdleIp]
  /\ Answer(ip[p].entry, ip[p].order, StkFailure(p, msg))
  /\ UNCHANGED <<orders, pushes>>

\* initiateStkPush up to the provider's response: configuration, token, phone
\* number, the push request; on ResponseCode "0" the handler goes on to persist the ids
StkPushRequest(p, outcome) ==
  /\ ip[p].pc = "push"
  /\ LET n == Len(pushes) + 1 IN
       IF outcome = "config_missing" THEN StkPushFails(p, "M-Pesa configuration incomplete")
       ELSE IF outcome = "token_failed"
       THEN StkPushFails(p, "Failed to get M-Pesa access token")
       ELSE IF PhoneInvalid(ip[p].phone) THEN StkPushFails(p, "Invalid phone number format")
       ELSE IF outcome = "transport_error" THEN StkPushFails(p, "fetch failed")
       ELSE IF outcome = "non_2xx" THEN StkPushFails(p, "STK Push request failed")
       ELSE IF outcome = "rejected" THEN StkPushFails(p, "STK Push request was rejected")
       ELSE /\ pushes' = Append(pushes,
                                PushRequest(ip[p].order, MathRound(ip[p].amount),
                                            formatPhoneNumber(ip[p].phone),
                                            CheckoutRequestID(n)))
            /\ ip' = [ip EXCEPT ![p] = [IdleIp EXCEPT !.pc = "persist",
                                           !.entry = ip[p].entry, !.order = ip[p].order,
                                           !.cid = CheckoutRequestID(n)]]
            /\ reply' = NoReply
            /\ UNCHANGED orders
  /\ UNCHANGED <<now, ticks, logs, cb, adm, sw, faults, served>>

\* the data initiateStkPush writes on acceptance
StkPushUpdateData(cid) ==
  [merchantRequestId |-> MerchantRequestID(CHOOSE i \in 1..5 : CheckoutRequestID(i) = cid),
   checkoutRequestId |-> cid,
   orderStatus |-> "PENDING_PAYMENT",
   paymentDueAt |-> now + FiveMinutes]

\* prisma.order.update of initiateStkPush, and the result handed to the caller
StkPushPersist(p) ==
  /\ ip[p].pc = "persist"
  /\ LET o == ip[p].order
         data == StkPushUpdateData(ip[p].cid) IN
       IF UpdateThrows(o, data)
       THEN /\ Answer(ip[p].entry, o, StkFailure(p, "update failed"))
            /\ UNCHANGED orders
       ELSE /\ orders' = [orders EXCEPT ![o] = UpdatedRow(o, data)]
            /\ Answer(ip[p].entry, o,
                      Res(TRUE, IF ip[p].entry = "checkout" THEN 200 ELSE 0,
                          "Success. Request accepted for processing"))
  /\ ip' = [ip EXCEPT ![p] = IdleIp]
  /\ UNCHANGED <<now, ticks, logs, pushes, cb, adm, sw, faults, served>>

\* the update throws: the catch of initiateStkPush returns a failure
StkPushPersistFails(p) ==
  /\ ip[p].pc = "persist"
  /\ CanFault
  /\ faults' = faults + 1
  /\ ip' = [ip EXCEPT ![p] = IdleIp]
  /\ Answer(ip[p].entry, ip[p].order, StkFailure(p, "update failed"))
  /\ UNCHANGED <<now, ticks, orders, logs, pushes, cb, adm, sw, served>>

(* ------------------------ admin status update ------------------------- *)

\* the status field of the form: four of the seven statuses and one that is
\* no order status
StatusInputs == {"DRAFT", "SHOPPING", "DELIVERED", "CANCELLED", "REFUNDED"}

\* the request updateOrderStatus is serving: the order, the status asked for
\* and the orderStatus its update replaced
IdleAdm == [pc |-> "idle", order |-> NULL, status |-> NULL, replaced |-> NULL]

UpdateFailed == Res(FALSE, 0, "Failed to update order status. Please try again.")

\* the checks without the test of the caller's role
updateOrderStatusCheckForAnyone(isAdmin, orderId, status) ==
  IF orderId = "" \/ status = "" THEN Res(FALSE, 0, "Order ID and status are required")
  ELSE IF status \notin OrderStatuses THEN Res(FALSE, 0, "Invalid order status")
  ELSE IF UpdateThrows(orderId, [orderStatus |-> status]) THEN UpdateFailed
  ELSE Res(TRUE, 0, "pass")

\* what updateOrderStatus answers without having written, "pass" when its
\* prisma.order.update succeeds
updateOrderStatusCheck(isAdmin, orderId, status) ==
  IF ~isAdmin THEN Res(FALSE, 0, "Unauthorized: Admin access required")
  ELSE IF orderId = "" \/ status = "" THEN Res(FALSE, 0, "Order ID and status are required")
  ELSE IF status \notin OrderStatuses THEN Res(FALSE, 0, "Invalid order status")
  ELSE IF UpdateThrows(orderId, [orderStatus |-> status]) THEN UpdateFailed
  ELSE Res(TRUE, 0, "pass")

updateOrderStatusRejected(isAdmin, orderId, status) ==
  /\ CanStart
  /\ ~Passed(updateOrderStatusCheck(isAdmin, orderId, status))
  /\ served' = served + 1
  /\ Answer("updateOrderStatus", orderId, updateOrderStatusCheck(isAdmin, orderId, status))
  /\ UNCHANGED <<now, ticks, orders, logs, pushes, cb, ip, adm, sw, faults>>

\* updateOrderStatus up to and including prisma.order.update
updateOrderStatus(isAdmin, orderId, status) ==
  /\ adm.pc = "idle"
  /\ CanStart
  /\ Passed(updateOrderStatusCheck(isAdmin, orderId, status))
  /\ orders' = [orders EXCEPT ![orderId] = UpdatedRow(orderId, [orderStatus |-> status])]
  /\ adm' = [pc |-> "log", order |-> orderId, status |-> status,
             replaced |-> orders[orderId].orderStatus]
  /\ served' = served + 1
  /\ reply' = NoReply
  /\ UNCHANGED <<now, ticks, logs, pushes, cb, ip, sw, faults>>

\* prisma.statusLog.create of updateOrderStatus
AdminLog ==
  /\ adm.pc = "log"
  /\ logs' = [logs EXCEPT ![adm.order] =
                Append(@, LogEntry(adm.status, "ADMIN", "ADMIN_PORTAL", "", NULL))]
  /\ adm' = IdleAdm
  /\ Answer("updateOrderStatus", adm.order, Res(TRUE, 0, ""))
  /\ UNCHANGED <<now, ticks, orders, pushes, cb, ip, sw, faults, served>>

\* the create throws: the catch of updateOrderStatus returns a failure
AdminLogFails ==
  /\ adm.pc = "log"
  /\ CanFault
  /\ faults' = faults + 1
  /\ adm' = IdleAdm
  /\ Answer("updateOrderStatus", adm.order, UpdateFailed)
  /\ UNCHANGED <<now, ticks, orders, logs, pushes, cb, ip, sw, served>>

(* ------------------------ reconciliation sweep ------------------------ *)

\* the rows of a findMany as a list, in id order
RECURSIVE AsList(_)
AsList(S) ==
  IF S = {} THEN <<>>
  ELSE LET o == CHOOSE x \in S : (x = "o1" \/ "o1" \notin S) IN
         <<o>> \o AsList(S \ {o})

\* the where clause without the test of the order status
OverdueIncludingCancelled(row) ==
  /\ row.created
  /\ row.paymentStatus = "PENDING"
  /\ row.paymentDueAt # NONE
  /\ row.paymentDueAt < now - ThirtyMinutes

\* the where clause asking for PENDING_PAYMENT in place of "not CANCELLED"
OverdueWhileAwaitingPayment(row) ==
  /\ row.created
  /\ row.paymentStatus = "PENDING"
  /\ row.paymentDueAt # NONE
  /\ row.paymentDueAt < now - ThirtyMinutes
  /\ row.orderStatus = "PENDING_PAYMENT"

\* where clause of the expiry pass
Overdue(row) ==
  /\ row.created
  /\ row.paymentStatus = "PENDING"
  /\ row.paymentDueAt # NONE
  /\ row.paymentDueAt < now - ThirtyMinutes
  /\ row.orderStatus # "CANCELLED"

\* the where clause without the test of the reconciliation status
PotentialDiscrepancyOfAnyStatus(row) ==
  /\ row.created
  /\ row.paymentStatus = "PAID"
  /\ \/ row.mpesaReceipt = NULL
     \/ (row.amountCollected # NONE /\ row.totalEstimate # NONE)

\* where clause of the discrepancy pass
PotentialDiscrepancy(row) ==
  /\ row.created
  /\ row.paymentStatus = "PAID"
  /\ row.reconciliationStatus = "NOT_REQUIRED"
  /\ \/ row.mpesaReceipt = NULL
     \/ (row.amountCollected # NONE /\ row.totalEstimate # NONE)

Abs(x) == IF x < 0 THEN -x ELSE x
OrZero(x) == IF x = NONE THEN 0 ELSE x

\* the reconciliationStatus the discrepancy pass gives a row it read
ReconciledStatus(row) ==
  IF row.mpesaReceipt = NULL THEN "DISCREPANCY"
  ELSE IF Abs(OrZero(row.amountCollected) - OrZero(row.totalEstimate)) > Tolerance * 100
  THEN "DISCREPANCY"
  ELSE "COMPLETED"

ReconciliationNote(row) ==
  IF row.mpesaReceipt = NULL THEN "Reconciliation: Missing M-Pesa receipt number"
  ELSE "Reconciliation: Amount discrepancy"

ExpiryData ==
  [paymentStatus |-> "FAILED",
   orderStatus |-> "CANCELLED",
   cancellationReason |->
     [prefix |-> "Payment timeout - no response from M-Pesa within 30 minutes", desc |-> ""],
   reconciliationStatus |-> "COMPLETED"]

IdleSw == [pc |-> "idle", queue |-> <<>>, snap |-> <<>>, results |-> NoResults]

\* POST of the reconciliation route with a wrong bearer token
SweepUnauthorized ==
  /\ CanStart
  /\ served' = served + 1
  /\ Answer("sweep", NULL, Res(FALSE, 401, "Unauthorized"))
  /\ UNCHANGED <<now, ticks, orders, logs, pushes, cb, ip, adm, sw, faults>>

\* POST of the reconciliation route: the first findMany, the rows are kept
\* as read
SweepStart ==
  /\ sw.pc = "idle"
  /\ CanStart
  /\ LET overdue == AsList({o \in Orders : Overdue(orders[o])}) IN
       sw' = [sw EXCEPT !.pc = IF overdue = <<>> THEN "query2" ELSE "expire_update",
                        !.queue = overdue,
                        !.snap = [i \in 1..Len(overdue) |-> orders[overdue[i]]]]
  /\ served' = served + 1
  /\ reply' = NoReply
  /\ UNCHANGED <<now, ticks, orders, logs, pushes, cb, ip, adm, faults>>

\* the end of one iteration of the first loop
NextOverdue(s) ==
  [s EXCEPT !.queue = Tail(@), !.snap = Tail(@),
            !.pc = IF Len(s.queue) = 1 THEN "query2" ELSE "expire_update"]

Count(s, field) == [s EXCEPT !.results[field] = @ + 1]

\* prisma.order.update of the expiry pass
SweepExpireUpdate ==
  /\ sw.pc = "expire_update"
  /\ LET o == Head(sw.queue) IN
       IF UpdateThrows(o, ExpiryData)
       THEN /\ sw' = NextOverdue(Count(sw, "errors"))
            /\ UNCHANGED orders
       ELSE /\ orders' = [orders EXCEPT ![o] = UpdatedRow(o, ExpiryData)]
            /\ sw' = [sw EXCEPT !.pc = "expire_log"]
  /\ reply' = NoReply
  /\ UNCHANGED <<now, ticks, logs, pushes, cb, ip, adm, faults, served>>

\* prisma.statusLog.create of the expiry pass
SweepExpireLog ==
  /\ sw.pc = "expire_log"
  /\ logs' = [logs EXCEPT ![Head(sw.queue)] =
                Append(@, LogEntry("CANCELLED", "SYSTEM", "WEB",
                                   "Auto-cancelled: Payment timeout (30 minutes expired)",
                                   NULL))]
  /\ sw' = NextOverdue(Count(Count(sw, "expiredPayments"), "processedOrders"))
  /\ reply' = NoReply
  /\ UNCHANGED <<now, ticks, orders, pushes, cb, ip, adm, faults, served>>

\* a write of the expiry pass throws and the error ends the run
SweepExpireFailsAborting ==
  /\ sw.pc \in {"expire_update", "expire_log"}
  /\ CanFault
  /\ faults' = faults + 1
  /\ sw' = [Count(sw, "errors") EXCEPT !.queue = <<>>, !.snap = <<>>, !.pc = "respond"]
  /\ reply' = NoReply
  /\ UNCHANGED <<now, ticks, orders, logs, pushes, cb, ip, adm, served>>

\* a write of the expiry pass throws: the per-order catch counts an error
SweepExpireFails ==
  /\ sw.pc \in {"expire_update", "expire_log"}
  /\ CanFault
  /\ faults' = faults + 1
  /\ sw' = NextOverdue(Count(sw, "errors"))
  /\ reply' = NoReply
  /\ UNCHANGED <<now, ticks, orders, logs, pushes, cb, ip, adm, served>>

\* the second findMany: the rows are kept as read
SweepQuery2 ==
  /\ sw.pc = "query2"
  /\ LET found == AsList({o \in Orders : PotentialDiscrepancy(orders[o])}) IN
       sw' = [sw EXCEPT !.pc = IF found = <<>> THEN "respond" ELSE "reconcile_update",
                        !.queue = found,
                        !.snap = [i \in 1..Len(found) |-> orders[found[i]]]]
  /\ reply' = NoReply
  /\ UNCHANGED <<now, ticks, orders, logs, pushes, cb, ip, adm, faults, served>>

\* the end of one iteration of the second loop
NextDiscrepancy(s) ==
  [s EXCEPT !.queue = Tail(@), !.snap = Tail(@),
            !.pc = IF Len(s.queue) = 1 THEN "respond" ELSE "reconcile_update"]

\* the discrepancies counter is raised before the update is tried
CountDiscrepancy(s) ==
  IF ReconciledStatus(Head(s.snap)) = "DISCREPANCY" THEN Count(s, "discrepancies") ELSE s

\* prisma.order.update of the discrepancy pass
SweepReconcileUpdate ==
  /\ sw.pc = "reconcile_update"
  /\ LET o == Head(sw.queue)
         status == ReconciledStatus(Head(sw.snap))
         data == [reconciliationStatus |-> status] IN
       IF UpdateThrows(o, data)
       THEN /\ sw' = NextDiscrepancy(Count(CountDiscrepancy(sw), "errors"))
            /\ UNCHANGED orders
       ELSE /\ orders' = [orders EXCEPT ![o] = UpdatedRow(o, data)]
            /\ sw' = IF status = "DISCREPANCY"
                     THEN [CountDiscrepancy(sw) EXCEPT !.pc = "reconcile_log"]
                     ELSE NextDiscrepancy(Count(sw, "processedOrders"))
  /\ reply' = NoReply
  /\ UNCHANGED <<now, ticks, logs, pushes, cb, ip, adm, faults, served>>

\* prisma.statusLog.create of the discrepancy pass
SweepReconcileLog ==
  /\ sw.pc = "reconcile_log"
  /\ logs' = [logs EXCEPT ![Head(sw.queue)] =
                Append(@, LogEntry(Head(sw.snap).orderStatus, "SYSTEM", "WEB",
                                   ReconciliationNote(Head(sw.snap)), NULL))]
  /\ sw' = NextDiscrepancy(Count(sw, "processedOrders"))
  /\ reply' = NoReply
  /\ UNCHANGED <<now, ticks, orders, pushes, cb, ip, adm, faults, served>>

\* a write of the discrepancy pass throws: the per-order catch counts an error
SweepReconcileFails ==
  /\ sw.pc \in {"reconcile_update", "reconcile_log"}
  /\ CanFault
  /\ faults' = faults + 1
  /\ sw' = NextDiscrepancy(Count(IF sw.pc = "reconcile_update" THEN CountDiscrepancy(sw)
                                 ELSE sw, "errors"))
  /\ reply' = NoReply
  /\ UNCHANGED <<now, ticks, orders, logs, pushes, cb, ip, adm, served>>

\* the JSON summary of the counters
SweepRespond ==
  /\ sw.pc = "respond"
  /\ sw' = IdleSw
  /\ reply' = [by |-> "sweep", order |-> NULL,
               res |-> Res(TRUE, 200, "Daily reconciliation completed"),
               results |-> sw.results]
  /\ UNCHANGED <<now, ticks, orders, logs, pushes, cb, ip, adm, faults, served>>

(* --------------------------- the system ------------------------------- *)

OrderIdInputs == {"o1", "", "missing"}

\* the store at the start: empty, or holding the order createOrderDraft
\* inserts for a subtotal of 1000.00 and a fee of 200.00 after initiatePayment
\* had its push request accepted and persisted
EmptyStore == [orders |-> [o \in Orders |-> NoOrder], pushes |-> <<>>]

PaymentRequested ==
  LET row == [NoOrder EXCEPT !.created = TRUE, !.totalEstimate = 120000]
      data == [merchantRequestId |-> MerchantRequestID(1),
               checkoutRequestId |-> CheckoutRequestID(1),
               orderStatus |-> "PENDING_PAYMENT",
               paymentDueAt |-> FiveMinutes] IN
    [orders |-> [o \in Orders |->
                   IF o = "o1" THEN [f \in DOMAIN row |->
                                       IF f \in DOMAIN data THEN data[f] ELSE row[f]]
                   ELSE NoOrder],
     pushes |-> <<[order |-> "o1", Amount |-> 1200,
                   PhoneNumber |-> <<"2", "5", "4", "7", "1", "2", "3", "4", "5", "6", "7", "8">>,
                   at |-> 0, cid |-> CheckoutRequestID(1), result |-> {}]>>]

Init ==
  /\ now = 0
  /\ ticks = 0
  /\ \E store \in {EmptyStore, PaymentRequested} :
       /\ orders = store.orders
       /\ pushes = store.pushes
  /\ logs = [o \in Orders |-> <<>>]
  /\ cb = [p \in CallbackHandlers |-> IdleCb]
  /\ ip = [p \in PaymentRequests |-> IdleIp]
  /\ adm = IdleAdm
  /\ sw = IdleSw
  /\ faults = 0
  /\ served = 0
  /\ reply = NoReply

Next ==
  \/ \E d \in TimeSteps : Tick(d)
  \/ \E s \in Subtotals, f \in ServiceFees : createOrderDraft("o1", s, f)
  \/ \E o \in OrderIdInputs, ph \in PhoneInputs \cup {NoPhone} :
       initiatePaymentRejected(o, ph)
  \/ \E p \in PaymentRequests, o \in Orders, ph \in PhoneInputs : initiatePayment(p, o, ph)
  \/ \E o \in OrderIdInputs, ph \in PhoneInputs \cup {NoPhone}, a \in RouteAmounts :
       CheckoutRejected(o, ph, a)
  \/ \E p \in PaymentRequests, o \in Orders, ph \in PhoneInputs, a \in RouteAmounts :
       CheckoutPOST(p, o, ph, a)
  \/ \E p \in PaymentRequests, out \in PushOutcomes : StkPushRequest(p, out)
  \/ \E p \in PaymentRequests : StkPushPersist(p)
  \/ \E p \in PaymentRequests : StkPushPersistFails(p)
  \/ \E origin \in Origins, pl \in Payloads : CallbackRejected(origin, pl)
  \/ \E p \in CallbackHandlers, origin \in Origins, pl \in Payloads :
       CallbackReceive(p, origin, pl)
  \/ \E p \in CallbackHandlers : CallbackLog(p)
  \/ \E p \in CallbackHandlers : CallbackLogFails(p)
  \/ \E p \in CallbackHandlers : CallbackUpdate(p)
  \/ \E p \in CallbackHandlers : CallbackUpdateFails(p)
  \/ \E p \in CallbackHandlers : CallbackCrash(p)
  \/ \E a \in BOOLEAN, o \in OrderIdInputs, st \in StatusInputs \cup {""} :
       updateOrderStatusRejected(a, o, st)
  \/ \E a \in BOOLEAN, o \in OrderIdInputs, st \in StatusInputs \cup {""} :
       updateOrderStatus(a, o, st)
  \/ AdminLog
  \/ AdminLogFails
  \/ SweepUnauthorized
  \/ SweepStart
  \/ SweepExpireUpdate
  \/ SweepExpireLog
  \/ SweepExpireFails
  \/ SweepQuery2
  \/ SweepReconcileUpdate
  \/ SweepReconcileLog
  \/ SweepReconcileFails
  \/ SweepRespond

Spec == Init /\ [][Next]_vars

(* ---------------- the sweep over a store of two orders ---------------- *)

\* the place of an order among the push requests: one request per order
PlaceOf(o) == IF o = "o1" THEN 1 ELSE 2

\* the receipt number the provider gives the payment of the i-th request
ReceiptOf(i) == <<"R1", "R2">>[i]

\* the Amount of a success callback: the total of the order, the total and
\* ten currency units, the total and ten units and a cent
SweptAmounts == {120000, 121000, 121001}

\* the row of an order after createOrderDraft and an accepted initiateStkPush
\* at time 0
RequestedRow(i) ==
  RowAfter([NoOrder EXCEPT !.created = TRUE, !.totalEstimate = 120000],
           [merchantRequestId |-> MerchantRequestID(i),
            checkoutRequestId |-> CheckoutRequestID(i),
            orderStatus |-> "PENDING_PAYMENT",
            paymentDueAt |-> FiveMinutes], 0)

\* the callbacks processCallback has processed for the i-th request
SweptPayloads(i) ==
  {Payload("ok", "mid", CheckoutRequestID(i), 0, a, r) :
     a \in SweptAmounts \cup {NONE}, r \in {ReceiptOf(i), NULL}}
  \cup {Payload("ok", "mid", CheckoutRequestID(i), code, NONE, NULL) : code \in FailureCodes}

\* what the store holds of one order when the sweep runs: no order, an order
\* waiting for its callback, the same cancelled by an admin, or an order whose
\* callback was processed; with its status log and the result of its request
SweptOrders(i) ==
  {[row |-> NoOrder, log |-> <<>>, result |-> {}],
   [row |-> RequestedRow(i), log |-> <<>>, result |-> {}],
   [row |-> RowAfter(RequestedRow(i), [orderStatus |-> "CANCELLED"], 0),
    log |-> <<LogEntry("CANCELLED", "ADMIN", "ADMIN_PORTAL", "", NULL)>>,
    result |-> {}]}
  \cup {[row |-> RowAfter(RequestedRow(i), CallbackUpdateData(pl), 0),
         log |-> <<CallbackLogEntry(pl)>>,
         result |-> IF pl.code = 0 => (pl.amount # NONE /\ pl.receipt # NULL)
                    THEN {pl} ELSE {}] : pl \in SweptPayloads(i)}

\* the push requests behind the orders of a store
SweptPushes(st) ==
  LET made == AsList({o \in Orders : st[o].row.created}) IN
    [k \in 1..Len(made) |->
       [order |-> made[k], Amount |-> 1200,
        PhoneNumber |-> <<"2", "5", "4", "7", "1", "2", "3", "4", "5", "6", "7", "8">>,
        at |-> 0, cid |-> CheckoutRequestID(PlaceOf(made[k])),
        result |-> st[made[k]].result]]

SweepInit ==
  /\ now = 0
  /\ ticks = 0
  /\ \E st \in [Orders -> UNION {SweptOrders(i) : i \in 1..2}] :
       /\ \A o \in Orders : st[o] \in SweptOrders(PlaceOf(o))
       /\ st["o2"].row.created => st["o1"].row.created
       /\ orders = [o \in Orders |-> st[o].row]
       /\ logs = [o \in Orders |-> st[o].log]
       /\ pushes = SweptPushes(st)
  /\ cb = [p \in CallbackHandlers |-> IdleCb]
  /\ ip = [p \in PaymentRequests |-> IdleIp]
  /\ adm = IdleAdm
  /\ sw = IdleSw
  /\ faults = 0
  /\ served = 0
  /\ reply = NoReply

SweepNext ==
  \/ \E d \in TimeSteps : Tick(d)
  \/ SweepUnauthorized
  \/ SweepStart
  \/ SweepExpireUpdate
  \/ SweepExpireLog
  \/ SweepExpireFails
  \/ SweepQuery2
  \/ SweepReconcileUpdate
  \/ SweepReconcileLog
  \/ SweepReconcileFails
  \/ SweepRespond

SweepSpec == SweepInit /\ [][SweepNext]_vars

(* ------------- the conversions of amounts and phone numbers ------------ *)

\* the totals of the orders paid for, in cents: 1500.00 to 1501.00
AmountInputs == {150000 + k : k \in 0..MaxCents}

\* what is typed into the phone field
PhoneStrings ==
  {<<"0", "7", "1", "2", "3", "4", "5", "6", "7", "8">>,
   <<"+", "2", "5", "4", "7", "1", "2", "3", "4", "5", "6", "7", "8">>,
   <<"2", "5", "4", "7", "1", "2", "3", "4", "5", "6", "7", "8">>,
   <<"7", "1", "2", "3", "4", "5", "6", "7", "8">>,
   <<"0", "7", "1", "2", " ", "3", "4", "5", "-", "6", "7", "8">>,
   <<"1", "2", "3", "4", "5">>,
   <<"2", "5", "4", "+", "1", "2", "3", "4", "5", "6", "7", "8">>,
   <<"+", "7", "1", "2", "3", "4", "5", "6", "7">>}

\* one order with its total, not yet paid for
ConversionInit ==
  /\ now = 0
  /\ ticks = 0
  /\ \E total \in AmountInputs :
       orders = [o \in Orders |-> IF o = "o1" THEN RowAfter(NewOrder(total), <<>>, 0)
                                  ELSE NoOrder]
  /\ pushes = <<>>
  /\ logs = [o \in Orders |-> <<>>]
  /\ cb = [p \in CallbackHandlers |-> IdleCb]
  /\ ip = [p \in PaymentRequests |-> IdleIp]
  /\ adm = IdleAdm
  /\ sw = IdleSw
  /\ faults = 0
  /\ served = 0
  /\ reply = NoReply

\* the order is paid for: a push request from either entry point, and the
\* callback of the provider reporting the Amount it was asked to collect
ConversionNext ==
  \/ \E ph \in PhoneStrings : initiatePaymentRejected("o1", ph)
  \/ \E ph \in PhoneStrings : initiatePayment("ip1", "o1", ph)
  \/ \E ph \in PhoneStrings : CheckoutPOST("ip1", "o1", ph, orders["o1"].totalEstimate)
  \/ \E out \in PushOutcomes : StkPushRequest("ip1", out)
  \/ StkPushPersist("ip1")
  \/ \E pl \in EchoPayloads : CallbackReceive("cb1", "provider", pl)
  \/ CallbackLog("cb1")
  \/ CallbackUpdate("cb1")

ConversionSpec == ConversionInit /\ [][ConversionNext]_vars

(* ----------------------------- properties ----------------------------- *)

\* how often a row occurs in a status log
CountEntries(log, e) == Cardinality({i \in 1..Len(log) : log[i] = e})

\* C1: while two deliveries of the same callback (same CheckoutRequestID, same
\* body) are being processed at once, whatever the order of their reads and
\* writes, the log of the order holds at most one entry of that callback.
C1_OneEntryForConcurrentDeliveries ==
  \A p, q \in CallbackHandlers :
    (p # q /\ cb[p].pc # "idle" /\ cb[q].pc # "idle" /\ cb[p].payload = cb[q].payload)
      => CountEntries(logs[cb[p].order], CallbackLogEntry(cb[p].payload)) <= 1

\* C2: a callback that finds its order already PAID with a receipt is never
\* processed further: the handler answers success at once, "Callback already
\* processed", and the step changes no order and no status log.
C2_IdempotencyGuard ==
  [][\A origin \in Origins, pl \in Payloads :
       LET o == CallbackOrder(pl) IN
         (o # NULL /\ orders[o].paymentStatus = "PAID" /\ orders[o].mpesaReceipt # NULL)
           => /\ \A p \in CallbackHandlers : ~CallbackReceive(p, origin, pl)
              /\ CallbackRejected(origin, pl)
                   => /\ reply'.res = Res(TRUE, 200, "Callback already processed")
                      /\ orders' = orders
                      /\ logs' = logs]_vars

\* the successful callback of the first push request was processed and then
\* delivered again: the order is PAID with its receipt, one entry in its log
C2_ReplayAnswered ==
  /\ reply.by = "callback"
  /\ reply.res.msg = "Callback already processed"
  /\ orders["o1"].paymentStatus = "PAID"
  /\ orders["o1"].mpesaReceipt = "R1"
  /\ logs["o1"] = <<LogEntry("PROCESSING", "SYSTEM", "WEB",
                              "Payment successful. M-Pesa Receipt: ", "R1")>>

\* C3: processCallback is all-or-nothing over its two writes. When the status
\* log append throws, the order is as before; when the order update throws,
\* or the process dies between the two writes, the log of the order holds no
\* entry of the callback.
C3_AllOrNothing ==
  [][\A p \in CallbackHandlers :
       /\ CallbackLogFails(p) => orders' = orders
       /\ (CallbackUpdateFails(p) \/ CallbackCrash(p)
             \/ (CallbackUpdate(p) /\ ~reply'.res.ok))
            => CountEntries(logs'[cb[p].order], CallbackLogEntry(cb[p].payload)) = 0]_vars

\* the order has a push request in its cooldown: checkoutRequestId set,
\* paymentStatus PENDING, updated less than five minutes ago
InCooldown(o) ==
  /\ orders[o].created
  /\ orders[o].checkoutRequestId # NULL
  /\ orders[o].paymentStatus = "PENDING"
  /\ now - orders[o].updatedAt < FiveMinutes

\* a payment request for an order in its cooldown, with a phone number (and
\* an amount) given, never reaches the provider and changes nothing; the
\* answer is the 'payment already in progress' error, and ifCancelled when the
\* order is CANCELLED, from initiatePayment and from the checkout API route
TurnedAway(ifCancelled) ==
  \A o \in Orders, ph \in PhoneInputs, a \in RouteAmounts \ {0} :
    LET msg == IF orders[o].orderStatus = "CANCELLED" THEN ifCancelled
               ELSE InProgressError IN
    InCooldown(o)
      => /\ \A p \in PaymentRequests :
              ~initiatePayment(p, o, ph) /\ ~CheckoutPOST(p, o, ph, a)
         /\ initiatePaymentRejected(o, ph)
              => /\ reply'.res = Res(FALSE, 0, msg)
                 /\ UNCHANGED <<orders, logs, pushes, ip>>
         /\ CheckoutRejected(o, ph, a)
              => /\ ~reply'.res.ok
                 /\ reply'.res.msg = msg
                 /\ UNCHANGED <<orders, logs, pushes, ip>>

\* C4 (as stated): for an order in its cooldown both entry points always
\* answer with the 'payment already in progress' error, call no provider and
\* leave the order unchanged.
C4_AlwaysInProgressError == [][TurnedAway(InProgressError)]_vars

\* C4 (amended): for an order in its cooldown both entry points answer with an
\* error, call no provider and leave the order unchanged; the error is
\* 'payment already in progress' unless the order is CANCELLED, when it is
\* 'Order has been cancelled'.
C4_NoSecondPushInCooldown == [][TurnedAway("Order has been cancelled")]_vars

\* initiatePayment has just turned a request away for the push in progress
C4_TurnedAwayInCooldown ==
  /\ reply.by = "initiatePayment"
  /\ reply.res.msg = InProgressError
  /\ InCooldown("o1")
  /\ Len(pushes) = 1

\* C5: at most one push request per order is in flight, also when two payment
\* requests for the order are served at once: with no database write failing,
\* the provider accepts no push request for an order less than five minutes
\* after one it accepted for that order and has not yet answered.
C5_OnePushInFlight ==
  faults = 0 =>
    \A i, j \in 1..Len(pushes) :
      (i < j /\ pushes[i].order = pushes[j].order /\ pushes[i].result = {})
        => pushes[j].at - pushes[i].at >= FiveMinutes

\* C6: an order that is PAID has a receipt.
C6_PaidHasReceipt ==
  \A o \in Orders : orders[o].paymentStatus = "PAID" => orders[o].mpesaReceipt # NULL

\* C7: no silent status change. A step that changes the orderStatus or the
\* paymentStatus of an order appends an entry to the log of that order, or
\* belongs to an operation that appends one: the callback processor appended
\* it in its step before, updateOrderStatus and the expiry pass of the sweep
\* go on to append it.
C7_NoSilentStatusChange ==
  [][\A o \in Orders :
       (/\ orders[o].created
        /\ \/ orders'[o].orderStatus # orders[o].orderStatus
           \/ orders'[o].paymentStatus # orders[o].paymentStatus)
         => \/ Len(logs'[o]) = Len(logs[o]) + 1
            \/ \E p \in CallbackHandlers :
                 cb[p].pc = "update" /\ cb[p].order = o /\ cb'[p].pc = "idle"
            \/ adm'.pc = "log" /\ adm'.order = o
            \/ sw'.pc = "expire_log" /\ Head(sw'.queue) = o]_vars

\* the order status lifecycle: one step forward, or a cancellation of an
\* order that is neither CANCELLED nor DELIVERED
Lifecycle ==
  <<"DRAFT", "PENDING_PAYMENT", "PROCESSING", "SHOPPING", "OUT_FOR_DELIVERY", "DELIVERED">>

AllowedEdge(from, to) ==
  \/ \E i \in 1..(Len(Lifecycle) - 1) : Lifecycle[i] = from /\ Lifecycle[i + 1] = to
  \/ to = "CANCELLED" /\ from \notin {"CANCELLED", "DELIVERED"}

\* C8: a step of payment initiation, of the callback processor or of the
\* sweep that changes the orderStatus of an order changes it along an
\* allowed edge; only updateOrderStatus changes it otherwise.
C8_SystemStepsFollowLifecycle ==
  [][\A o \in Orders :
       (/\ orders[o].created
        /\ orders'[o].orderStatus # orders[o].orderStatus
        /\ ~\E st \in StatusInputs : updateOrderStatus(TRUE, o, st))
         => AllowedEdge(orders[o].orderStatus, orders'[o].orderStatus)]_vars

\* the step appends exactly one row to the log of o, written by SYSTEM, and
\* writes no order
AppendsOneSystemEntry(o) ==
  /\ Len(logs'[o]) = Len(logs[o]) + 1
  /\ SubSeq(logs'[o], 1, Len(logs[o])) = logs[o]
  /\ logs'[o][Len(logs'[o])].actor = "SYSTEM"
  /\ \A q \in Orders \ {o} : logs'[q] = logs[q]
  /\ orders' = orders

\* C9: the happy path. An order created with subtotal 1000.00 and fee 200.00
\* has totalEstimate 1200.00; a push request accepted and persisted sets both
\* request ids, orderStatus PENDING_PAYMENT and paymentDueAt five minutes
\* from now; a callback with ResultCode 0, Amount 120000 and receipt R1 then
\* appends exactly one SYSTEM entry and sets PAID, PROCESSING, the receipt,
\* amountCollected 1200.00 and no paymentDueAt.
C9_HappyPath ==
  [][/\ \A o \in Orders :
          createOrderDraft(o, 100000, 20000) => orders'[o].totalEstimate = 120000
     /\ \A p \in PaymentRequests :
          (StkPushPersist(p) /\ reply'.res.ok)
            => LET row == orders'[ip[p].order] IN
                 /\ row.merchantRequestId # NULL
                 /\ row.checkoutRequestId # NULL
                 /\ row.checkoutRequestId = ip[p].cid
                 /\ row.orderStatus = "PENDING_PAYMENT"
                 /\ row.paymentDueAt = now + FiveMinutes
     /\ \A p \in CallbackHandlers :
          LET pl == cb[p].payload
              o == cb[p].order IN
            (pl.code = 0 /\ pl.amount = 120000 /\ pl.receipt = "R1")
              => /\ CallbackLog(p) => AppendsOneSystemEntry(o)
                 /\ (CallbackUpdate(p) /\ reply'.res.ok)
                      => /\ orders'[o].paymentStatus = "PAID"
                         /\ orders'[o].orderStatus = "PROCESSING"
                         /\ orders'[o].mpesaReceipt = "R1"
                         /\ orders'[o].amountCollected = 120000
                         /\ orders'[o].paymentDueAt = NONE
                         /\ logs' = logs]_vars

\* the happy path has been walked: the order is paid in full, one log entry
C9_PaidInFull ==
  /\ reply.res.msg = "Callback processed successfully"
  /\ Len(pushes) = 1
  /\ pushes[1].Amount = 1200
  /\ orders["o1"].totalEstimate = 120000
  /\ orders["o1"].paymentStatus = "PAID"
  /\ orders["o1"].orderStatus = "PROCESSING"
  /\ orders["o1"].mpesaReceipt = "R1"
  /\ orders["o1"].amountCollected = 120000
  /\ orders["o1"].paymentDueAt = NONE
  /\ Len(logs["o1"]) = 1
  /\ logs["o1"][1].actor = "SYSTEM"

\* C10: the failure branch. A callback with a ResultCode other than 0 for an
\* order that is not PAID with a receipt is processed: it appends exactly one
\* entry and sets FAILED, CANCELLED, a cancellationReason holding the
\* ResultDesc and no paymentDueAt.
C10_FailureBranch ==
  [][/\ \A origin \in Origins, pl \in Payloads :
          LET o == CallbackOrder(pl) IN
            (/\ pl.code # 0
             /\ o # NULL
             /\ ~(orders[o].paymentStatus = "PAID" /\ orders[o].mpesaReceipt # NULL))
              => ~CallbackRejected(origin, pl)
     /\ \A p \in CallbackHandlers :
          LET pl == cb[p].payload
              o == cb[p].order IN
            (cb[p].pc # "idle" /\ pl.code # 0)
              => /\ CallbackLog(p) => AppendsOneSystemEntry(o)
                 /\ (CallbackUpdate(p) /\ reply'.res.ok)
                      => /\ orders'[o].paymentStatus = "FAILED"
                         /\ orders'[o].orderStatus = "CANCELLED"
                         /\ orders'[o].cancellationReason.desc = ResultDescOf(pl.code)
                         /\ orders'[o].paymentDueAt = NONE
                         /\ logs' = logs]_vars

\* a failure callback has been processed: the order is cancelled, one entry
C10_PaymentFailed ==
  /\ reply.res.msg = "Callback processed successfully"
  /\ orders["o1"].paymentStatus = "FAILED"
  /\ orders["o1"].orderStatus = "CANCELLED"
  /\ orders["o1"].cancellationReason =
       [prefix |-> "Payment failed: ", desc |-> "Request cancelled by user"]
  /\ orders["o1"].paymentDueAt = NONE
  /\ Len(logs["o1"]) = 1
  /\ logs["o1"][1].status = "CANCELLED"

\* C11: whenever payment initiation returns a failure (configuration, token,
\* phone number, transport, non-2xx response, ResponseCode other than "0", or
\* the update of the order throwing), no order and no status log has changed,
\* so the checks of a retry see the order as before.
C11_FailureChangesNothing ==
  [][\A p \in PaymentRequests :
       (\/ \E out \in PushOutcomes : StkPushRequest(p, out) /\ ip'[p].pc = "idle"
        \/ StkPushPersistFails(p)
        \/ StkPushPersist(p) /\ ~reply'.res.ok)
         => /\ ~reply'.res.ok
            /\ orders' = orders
            /\ logs' = logs
            /\ PaymentGuard(orders'[ip[p].order]) = PaymentGuard(orders[ip[p].order])]_vars

\* the provider has just rejected the push request of a new order, which can
\* still be paid for
C11_RejectedAndRetryable ==
  /\ reply.by = "initiatePayment"
  /\ reply.res.msg = "STK Push request was rejected"
  /\ orders["o1"].created
  /\ orders["o1"].checkoutRequestId = NULL
  /\ PaymentGuard(orders["o1"]) = "pass"
  /\ logs["o1"] = <<>>

\* C12: a payment request, with a phone number (and an amount) given, for an
\* order that does not exist, is PAID or is CANCELLED is turned away at once
\* by initiatePayment and by the checkout API route, with the error that
\* names the reason; it never reaches the provider and changes nothing.
C12_RejectedSynchronously ==
  [][\A o \in OrderIdInputs \ {""}, ph \in PhoneInputs, a \in RouteAmounts \ {0} :
       LET msg == IF OrderMissing(o) THEN "Order not found"
                  ELSE IF orders[o].paymentStatus = "PAID"
                  THEN "Order has already been paid"
                  ELSE "Order has been cancelled" IN
         (\/ OrderMissing(o)
          \/ orders[o].paymentStatus = "PAID"
          \/ orders[o].orderStatus = "CANCELLED")
           => /\ \A p \in PaymentRequests :
                   ~initiatePayment(p, o, ph) /\ ~CheckoutPOST(p, o, ph, a)
              /\ initiatePaymentRejected(o, ph)
                   => /\ reply'.res = Res(FALSE, 0, msg)
                      /\ UNCHANGED <<orders, logs, pushes, ip>>
              /\ CheckoutRejected(o, ph, a)
                   => /\ ~reply'.res.ok
                      /\ reply'.res.msg = msg
                      /\ UNCHANGED <<orders, logs, pushes, ip>>]_vars

\* initiatePayment has just turned away a request for an order that is paid
C12_TurnedAwayPaid ==
  /\ reply.by = "initiatePayment"
  /\ reply.res.msg = "Order has already been paid"
  /\ orders["o1"].paymentStatus = "PAID"
  /\ Len(pushes) = 1

\* C13: every callback whose payload carries both MerchantRequestID and
\* CheckoutRequestID is answered with a success acknowledgment (2xx), also
\* when the CheckoutRequestID matches no order or when processing fails, and
\* an unknown CheckoutRequestID changes no order and no log.
C13_AlwaysAcknowledged ==
  [][/\ \A origin \in Origins, pl \in Payloads :
          (pl.struct = "ok" /\ pl.mid # NULL /\ pl.cid # NULL
             /\ CallbackRejected(origin, pl))
            => /\ reply'.res.http = 200
               /\ orders' = orders /\ logs' = logs
     /\ \A p \in CallbackHandlers :
          (CallbackLogFails(p) \/ CallbackUpdate(p) \/ CallbackUpdateFails(p))
            => reply'.res.http = 200]_vars

\* the status log row of an expiry
ExpiryEntry ==
  LogEntry("CANCELLED", "SYSTEM", "WEB",
           "Auto-cancelled: Payment timeout (30 minutes expired)", NULL)

\* the order was expired by the sweep
Expired(row) ==
  /\ row.paymentStatus = "FAILED"
  /\ row.orderStatus = "CANCELLED"
  /\ row.cancellationReason.prefix =
       "Payment timeout - no response from M-Pesa within 30 minutes"
  /\ row.reconciliationStatus = "COMPLETED"

\* C14: the expiry pass of the sweep selects exactly the orders with
\* paymentStatus PENDING, an orderStatus other than CANCELLED and a
\* paymentDueAt more than 30 minutes in the past; each of them gets
\* paymentStatus FAILED, orderStatus CANCELLED, the timeout
\* cancellationReason, reconciliationStatus COMPLETED and exactly one new
\* StatusLog entry of actor SYSTEM; no other order and no other log is
\* touched by the pass, and a pass that counted no error leaves no such
\* order.
C14_SweepExpiry ==
  [][/\ SweepStart
          => LET due == {o \in Orders :
                           /\ orders[o].created
                           /\ orders[o].paymentStatus = "PENDING"
                           /\ orders[o].orderStatus # "CANCELLED"
                           /\ orders[o].paymentDueAt # NONE
                           /\ now - orders[o].paymentDueAt > ThirtyMinutes} IN
               /\ {sw'.queue[i] : i \in 1..Len(sw'.queue)} = due
               /\ Len(sw'.queue) = Cardinality(due)
               /\ orders' = orders /\ logs' = logs
     /\ SweepExpireUpdate
          => LET o == Head(sw.queue) IN
               /\ Expired(orders'[o])
               /\ \A q \in Orders \ {o} : orders'[q] = orders[q]
               /\ logs' = logs
               /\ sw'.pc = "expire_log" /\ sw'.queue = sw.queue
     /\ SweepExpireLog
          => LET e == Head(sw.queue) IN
               /\ logs'[e] = Append(logs[e], ExpiryEntry)
               /\ ExpiryEntry.actor = "SYSTEM"
               /\ \A q \in Orders \ {e} : logs'[q] = logs[q]
               /\ orders' = orders
               /\ sw'.results.expiredPayments = sw.results.expiredPayments + 1
     /\ (SweepQuery2 /\ sw.results.errors = 0)
          => \A q \in Orders :
               ~(/\ orders[q].created
                 /\ orders[q].paymentStatus = "PENDING"
                 /\ orders[q].orderStatus # "CANCELLED"
                 /\ orders[q].paymentDueAt # NONE
                 /\ now - orders[q].paymentDueAt > ThirtyMinutes)]_vars

\* a sweep has expired the first order, which then has the one entry, and
\* has left alone the second, cancelled by an admin while its payment was
\* pending
C14_OneExpiredOneUntouched ==
  /\ reply.by = "sweep"
  /\ reply.results.expiredPayments = 1
  /\ reply.results.errors = 0
  /\ Expired(orders["o1"])
  /\ logs["o1"] = <<ExpiryEntry>>
  /\ orders["o2"] = RowAfter(RequestedRow(2), [orderStatus |-> "CANCELLED"], 0)
  /\ Len(logs["o2"]) = 1

\* C15: an order with a pending payment whose paymentDueAt is exactly 30
\* minutes before the time of the sweep is selected for expiry, and one whose
\* paymentDueAt is later than that is not.
C15_ExpiredAtTheBoundary ==
  [][SweepStart
       => \A o \in Orders :
            (/\ orders[o].created
             /\ orders[o].paymentStatus = "PENDING"
             /\ orders[o].orderStatus # "CANCELLED"
             /\ orders[o].paymentDueAt # NONE)
              => ((now - orders[o].paymentDueAt >= ThirtyMinutes)
                    <=> (\E i \in 1..Len(sw'.queue) : sw'.queue[i] = o))]_vars

\* neither pass of a sweep started now would select an order
NothingToSweep ==
  \A o \in Orders :
    orders[o].created
      => /\ ~(/\ orders[o].paymentStatus = "PENDING"
              /\ orders[o].orderStatus # "CANCELLED"
              /\ orders[o].paymentDueAt # NONE
              /\ orders[o].paymentDueAt < now - ThirtyMinutes)
         /\ ~(/\ orders[o].paymentStatus = "PAID"
              /\ orders[o].reconciliationStatus = "NOT_REQUIRED"
              /\ \/ orders[o].mpesaReceipt = NULL
                 \/ orders[o].amountCollected # NONE)

\* a sweep that selects no order writes nothing and goes on
SelectsNothing ==
  /\ SweepStart => (sw'.queue = <<>> /\ sw'.pc = "query2")
  /\ SweepQuery2 => (sw'.queue = <<>> /\ sw'.pc = "respond")
  /\ (SweepStart \/ SweepQuery2) => (orders' = orders /\ logs' = logs)

WrittenByAdmin(o) ==
  \/ adm.pc = "log" /\ adm.order = o /\ adm.status = orders[o].orderStatus
  \/ /\ Len(logs[o]) > 0
     /\ logs[o][Len(logs[o])].actor = "ADMIN"
     /\ logs[o][Len(logs[o])].status = orders[o].orderStatus

\* C17: an orderStatus an admin wrote to an order after the sweep read its
\* batch is not overwritten by the sweep's update of that order.
C17_AdminEditSurvivesSweep ==
  [][SweepExpireUpdate
       => LET o == Head(sw.queue) IN
            (orders[o].orderStatus # Head(sw.snap).orderStatus /\ WrittenByAdmin(o))
              => orders'[o].orderStatus = orders[o].orderStatus]_vars

\* the orders a sweep started now would select in one of its passes
StillToSweep ==
  {o \in Orders :
     /\ orders[o].created
     /\ \/ /\ orders[o].paymentStatus = "PENDING"
           /\ orders[o].orderStatus # "CANCELLED"
           /\ orders[o].paymentDueAt # NONE
           /\ orders[o].paymentDueAt < now - ThirtyMinutes
        \/ /\ orders[o].paymentStatus = "PAID"
           /\ orders[o].reconciliationStatus = "NOT_REQUIRED"
           /\ \/ orders[o].mpesaReceipt = NULL
              \/ orders[o].amountCollected # NONE}

\* C18: when the update or the StatusLog append of one order throws, the
\* sweep counts one error and goes on with the next order of the batch, or
\* with the next pass; at the end it answers with its counters, and the
\* orders left unprocessed are no more than the errors counted.
C18_BatchIsolation ==
  [][/\ SweepExpireFails
          => /\ sw'.results = [sw.results EXCEPT !.errors = @ + 1]
             /\ sw'.queue = Tail(sw.queue)
             /\ sw'.pc = IF Len(sw.queue) > 1 THEN "expire_update" ELSE "query2"
     /\ SweepReconcileFails
          => /\ sw'.results.errors = sw.results.errors + 1
             /\ sw'.results.processedOrders = sw.results.processedOrders
             /\ sw'.queue = Tail(sw.queue)
             /\ sw'.pc = IF Len(sw.queue) > 1 THEN "reconcile_update" ELSE "respond"
     /\ SweepRespond
          => /\ sw.queue = <<>>
             /\ reply'.res = Res(TRUE, 200, "Daily reconciliation completed")
             /\ reply'.results = sw.results
             /\ Cardinality(StillToSweep) <= sw.results.errors]_vars

\* a sweep has answered with one error and one expired payment: the update
\* of the first order failed and the second order was expired all the same
C18_OneFailedOneExpired ==
  /\ reply.by = "sweep"
  /\ reply.results.errors = 1
  /\ reply.results.expiredPayments = 1
  /\ orders["o1"].paymentStatus = "PENDING"
  /\ StillToSweep = {"o1"}
  /\ Expired(orders["o2"])
  /\ logs["o2"] = <<ExpiryEntry>>

\* C19: the discrepancy pass takes up every order that is PAID with
\* reconciliationStatus NOT_REQUIRED, marking it DISCREPANCY if it lacks a
\* receipt or its amountCollected differs from its totalEstimate by more than
\* 10 and COMPLETED otherwise, so that no such order is left NOT_REQUIRED.
C19_NoPaidOrderLeftOut ==
  [][/\ SweepQuery2
          => \A o \in Orders :
               (/\ orders[o].created
                /\ orders[o].paymentStatus = "PAID"
                /\ orders[o].reconciliationStatus = "NOT_REQUIRED")
                 => \E i \in 1..Len(sw'.queue) : sw'.queue[i] = o
     /\ SweepReconcileUpdate
          => LET o == Head(sw.queue)
                 row == Head(sw.snap) IN
               orders'[o].reconciliationStatus =
                 IF \/ row.mpesaReceipt = NULL
                    \/ Abs(OrZero(row.amountCollected) - OrZero(row.totalEstimate))
                         > Tolerance * 100
                 THEN "DISCREPANCY" ELSE "COMPLETED"]_vars

\* C20: updateOrderStatus called by someone who is not an admin, or with a
\* status that is none of the seven order statuses, or with an empty order
\* id, writes nothing: it returns an error and leaves the orders and the
\* status logs as they were.
C20_RefusedWithoutChange ==
  [][\A a \in BOOLEAN, o \in OrderIdInputs, st \in StatusInputs \cup {""} :
       (~a \/ o = ""
           \/ st \notin {"DRAFT", "PENDING_PAYMENT", "PROCESSING", "SHOPPING",
                         "OUT_FOR_DELIVERY", "DELIVERED", "CANCELLED"})
         => /\ ~updateOrderStatus(a, o, st)
            /\ updateOrderStatusRejected(a, o, st)
                 => /\ reply'.by = "updateOrderStatus"
                    /\ ~reply'.res.ok
                    /\ reply'.res.msg # ""
                    /\ orders' = orders
                    /\ logs' = logs
                    /\ adm' = adm]_vars

\* updateOrderStatus has refused a caller who is not an admin, for an order
\* that exists
C20_NotAnAdmin ==
  /\ reply.by = "updateOrderStatus"
  /\ reply.order = "o1"
  /\ reply.res = Res(FALSE, 0, "Unauthorized: Admin access required")
  /\ orders["o1"].created
  /\ logs["o1"] = <<>>

\* the status log row updateOrderStatus creates
AdminEntry(status) == LogEntry(status, "ADMIN", "ADMIN_PORTAL", "", NULL)

\* C21: updateOrderStatus is all-or-nothing. When it reports a failure
\* because the StatusLog append threw, the orderStatus of the order is the
\* one its update replaced; when it reports success, the orderStatus is the
\* requested one and exactly one entry of actor ADMIN and channel
\* ADMIN_PORTAL was appended.
C21_AdminAllOrNothing ==
  [][/\ AdminLogFails
          => /\ ~reply'.res.ok
             /\ orders'[adm.order].orderStatus = adm.replaced
     /\ AdminLog
          => /\ reply'.res.ok
             /\ orders'[adm.order].orderStatus = adm.status
             /\ logs'[adm.order] = Append(logs[adm.order], AdminEntry(adm.status))
             /\ \A q \in Orders \ {adm.order} : logs'[q] = logs[q]]_vars

\* C22: the StatusLog is append-only. Every step of every operation leaves
\* the log of each order as it was or longer by entries at its end, so the
\* log at a later state has the log at every earlier state as a prefix; a
\* retried payment request leaves the entries of the attempt before in place.
C22_AppendOnly ==
  [][\A o \in Orders :
       /\ Len(logs'[o]) >= Len(logs[o])
       /\ SubSeq(logs'[o], 1, Len(logs[o])) = logs[o]]_vars

\* the order has the ids of a second push request, accepted after the
\* cooldown, and its log still holds the entry the callback of the first
\* request wrote
C22_RetriedWithEntryKept ==
  /\ orders["o1"].checkoutRequestId = CheckoutRequestID(2)
  /\ orders["o1"].merchantRequestId = MerchantRequestID(2)
  /\ Len(pushes) = 2
  /\ cb["cb1"].pc = "update"
  /\ cb["cb1"].payload.cid = CheckoutRequestID(1)
  /\ logs["o1"] = <<CallbackLogEntry(cb["cb1"].payload)>>

\* C23: the amount round trip. An amount in cents is turned into the Amount
\* of the push request as initiateStkPush does, the provider reports that
\* Amount in its success callback, and processCallback turns it into the
\* amountCollected: the result is within one cent of the amount.
C23_AmountRoundTrip ==
  [][\A p \in CallbackHandlers :
       LET pl == cb[p].payload
           o == cb[p].order IN
         (/\ CallbackUpdate(p)
          /\ reply'.res.ok
          /\ pl \in EchoPayloads
          /\ pushes[PushOf(pl.cid)].Amount = MathRound(orders[o].totalEstimate))
           => /\ orders'[o].amountCollected # NONE
              /\ Abs(orders'[o].amountCollected - orders[o].totalEstimate) <= 1]_vars

\* C24: phone normalization. For every phone input, initiateStkPush either
\* fails without sending a push request, or sends one whose PhoneNumber is
\* what formatPhoneNumber returned: exactly 12 decimal digits beginning with
\* 254, with no other character such as '+'.
C24_TwelveDigitsOrError ==
  [][\A p \in PaymentRequests, out \in PushOutcomes :
       StkPushRequest(p, out)
         => IF pushes' = pushes THEN ~reply'.res.ok
            ELSE LET sent == pushes'[Len(pushes')].PhoneNumber IN
                   /\ Len(sent) = 12
                   /\ SubSeq(sent, 1, 3) = <<"2", "5", "4">>
                   /\ \A i \in 1..Len(sent) : sent[i] \in DigitChars]_vars

\* C25: payment-driven transitions are system-only. An order becomes PAID
\* only by a callback the provider delivered as the result of a push request
\* it accepted; a body POSTed by anyone else, who knows the checkoutRequestId
\* of the order, does not make the order PAID.
C25_PaidOnlyByProvider ==
  [][\A p \in CallbackHandlers :
       LET pl == cb[p].payload
           o == cb[p].order IN
         (/\ CallbackUpdate(p)
          /\ orders[o].paymentStatus # "PAID"
          /\ orders'[o].paymentStatus = "PAID")
           => /\ pl.cid \in IssuedCids
              /\ pushes[PushOf(pl.cid)].result = {pl}]_vars

\* C26: the sweep and the callback. No step of the sweep sets paymentStatus
\* FAILED or orderStatus CANCELLED on an order that is PAID with a receipt;
\* an order the sweep read as overdue and a success callback has since marked
\* PAID is left as it is by the sweep.
C26_SweepSparesPaidOrder ==
  [][\A o \in Orders :
       (/\ orders[o].created
        /\ orders[o].paymentStatus = "PAID"
        /\ orders[o].mpesaReceipt # NULL
        /\ SweepExpireUpdate \/ SweepExpireLog \/ SweepReconcileUpdate \/ SweepReconcileLog)
         => /\ orders'[o].paymentStatus = "PAID"
            /\ orders'[o].orderStatus = orders[o].orderStatus]_vars

\* C27: no confirmed payment is lost on retry. The provider's success
\* callback for a push request whose ids were persisted (no write has thrown
\* and the request is not waiting for its update) finds the order and leaves
\* it PAID, also when a newer accepted request has since put its own
\* checkoutRequestId on the order: the callback is never turned away.
C27_ConfirmedPaymentKept ==
  [][\A pl \in Payloads :
       (/\ CallbackRejected("provider", pl)
        /\ pl.code = 0
        /\ faults = 0
        /\ \A p \in PaymentRequests : ~(ip[p].pc = "persist" /\ ip[p].cid = pl.cid))
         => /\ reply'.res.ok
            /\ orders'[pushes[PushOf(pl.cid)].order].paymentStatus = "PAID"]_vars

(* ------------- the scheduled sweep and the admin, no callback ---------- *)

\* a request may be served and leave one for the run of the sweep that the
\* scheduler starts at the end of the time observed
Spare == served + 1 < MaxRequests

\* the scheduler posts to the reconciliation route
ScheduledSweep == (Spare \/ ticks = MaxTicks) /\ SweepStart

\* an admin sets the status of an order
AdminChange ==
  \E o \in OrderIdInputs, st \in StatusInputs : Spare /\ updateOrderStatus(TRUE, o, st)

\* the statements of a run of the sweep after its first query
SweepSteps ==
  \/ SweepExpireUpdate
  \/ SweepExpireLog
  \/ SweepQuery2
  \/ SweepReconcileUpdate
  \/ SweepReconcileLog
  \/ SweepRespond

\* no payment is initiated, no callback arrives and the database answers;
\* the clock is read after the cooldown and the expiry threshold have passed
ResolutionNext ==
  \/ Tick(FiveMinutes + ThirtyMinutes)
  \/ ScheduledSweep
  \/ AdminChange
  \/ AdminLog
  \/ SweepSteps

\* time passes, the scheduler keeps posting and a handler that was started
\* runs its statements to the end
ResolutionSpec ==
  /\ SweepInit
  /\ [][ResolutionNext]_vars
  /\ WF_vars(Tick(FiveMinutes + ThirtyMinutes))
  /\ WF_vars(ScheduledSweep)
  /\ WF_vars(SweepSteps)
  /\ WF_vars(AdminLog)

\* an accepted push request is waiting for its outcome
Awaiting(o) ==
  /\ orders[o].created
  /\ orders[o].paymentStatus = "PENDING"
  /\ orders[o].paymentDueAt # NONE

Resolved(o) == orders[o].paymentStatus \in {"PAID", "FAILED"}

C29_AmountIsOrderTotal ==
  [][\A p \in PaymentRequests, out \in PushOutcomes :
       (StkPushRequest(p, out) /\ pushes' # pushes)
         => pushes'[Len(pushes')].Amount = MathRound(orders[ip[p].order].totalEstimate)]_vars

\* the failure callback pl has been processed for order o: the row is FAILED
\* and CANCELLED with its due date cleared and the log holds the entry
FailureApplied(o, pl) ==
  /\ pl.code # 0
  /\ orders[o].paymentStatus = "FAILED"
  /\ orders[o].orderStatus = "CANCELLED"
  /\ orders[o].paymentDueAt = NONE
  /\ \E i \in 1..Len(logs[o]) : logs[o][i] = CallbackLogEntry(pl)

\* C30: replaying a failure callback is idempotent. Once a callback with a
\* ResultCode other than 0 has set the order to FAILED and CANCELLED, a
\* second delivery of the same callback changes no field of the order and
\* appends no StatusLog entry.
C30_FailureReplayWritesNothing ==
  [][\A p \in CallbackHandlers :
       (/\ cb[p].pc # "idle"
        /\ FailureApplied(cb[p].order, cb[p].payload)
        /\ CallbackLog(p) \/ CallbackUpdate(p))
         => /\ logs' = logs
            /\ orders' = orders]_vars

====
